---- MODULE Spec2Model ----
(***************************************************************************)
(* Model of framework/util/generate_ground_truth.py: the diff-to-method    *)
(* attribution engine (extract_modified_methods, find_method_at_line,      *)
(* find_method_by_signature).                                              *)
(*                                                                         *)
(* Text is modelled at token level: a source line is the sequence of its   *)
(* whitespace/punctuation separated tokens (line.strip() is the sequence   *)
(* itself, `x in line` is token membership, split('(')[0] is the prefix    *)
(* before the first "(" token).  A diff line is the sequence of its        *)
(* characters.  An optional value (Python None or a value) is the empty    *)
(* sequence or a one-element sequence.                                     *)
(***************************************************************************)
EXTENDS Integers, Sequences, FiniteSets, TLC

VARIABLES
    \* find_method_at_line
    lines, target_line, i, method_stack, brace_depth, loc_result, loc_pc,
    closed_spans,   \* history: every completed_method popped so far
    \* find_method_by_signature (it scans lines with the index i as well)
    method_name, signature, in_comment, sig_result, sig_pc,
    \* extract_modified_methods
    diff_output, diff_i, changed_lines_buggy, changed_lines_fixed,
    current_buggy_line, current_fixed_line, pc,
    modified_classes,   \* input: the class names, a class name is its dotted segments
    edits,              \* input: how the fixed file of class p.A differs from the buggy one
    cls_idx,            \* classes of modified_classes already taken by the for loop
    methods_found,      \* the dict, as the sequence of its values in insertion order
    todo,               \* lines the running `for line_num in changed_lines_*` has to visit
    fb_idx,             \* records the fallback loop has handled
    modified_methods,
    visit_log,          \* history: the changed lines in the order they were visited
    created,            \* history: the [class, method] keys put in methods_found
    prev                \* the list an earlier call returned, if any

locVars == <<target_line, method_stack, brace_depth, loc_result, loc_pc, closed_spans>>
sigVars == <<method_name, signature, in_comment, sig_result, sig_pc>>
parseVars == <<diff_output, diff_i, changed_lines_buggy, changed_lines_fixed,
               current_buggy_line, current_fixed_line>>
pipeVars == <<modified_classes, edits, cls_idx, methods_found, todo, fb_idx,
              modified_methods, visit_log, created, prev>>
vars == <<lines, i, locVars, sigVars, parseVars, pc, pipeVars>>

(***************************************************************************)
(* Bounds of the model                                                     *)
(***************************************************************************)
MaxFileLen == 4
MaxSigFileLen == 4
MaxDiffLen == 4
MaxClasses == 2
MaxEdits == 2

(***************************************************************************)
(* Token helpers                                                           *)
(***************************************************************************)
SetMin(S) == CHOOSE x \in S : \A y \in S : x <= y

Contains(s, t) == \E k \in 1..Len(s) : s[k] = t

ContainsAny(s, T) == \E k \in 1..Len(s) : s[k] \in T

\* s.index(t, from), 1-based; 0 when Python raises ValueError
IndexFrom(s, t, from) ==
    LET K == {k \in from..Len(s) : s[k] = t}
    IN  IF K = {} THEN 0 ELSE SetMin(K)

\* s.split(t)[0]
BeforeFirst(s, t) ==
    LET k == IndexFrom(s, t, 1)
    IN  IF k = 0 THEN s ELSE SubSeq(s, 1, k - 1)

\* s.count(t)
Count(s, t) == Cardinality({k \in 1..Len(s) : s[k] = t})

Front(s) == SubSeq(s, 1, Len(s) - 1)

Last(s) == s[Len(s)]

\* s.split(sep): the groups between separators, empty groups kept
RECURSIVE SplitOn(_, _)
SplitOn(s, sep) ==
    LET k == IndexFrom(s, sep, 1)
    IN  IF k = 0 THEN <<s>>
        ELSE <<SubSeq(s, 1, k - 1)>> \o SplitOn(SubSeq(s, k + 1, Len(s)), sep)

\* sep.join(groups)
RECURSIVE JoinWith(_, _)
JoinWith(groups, sep) ==
    IF groups = <<>> THEN <<>>
    ELSE IF Len(groups) = 1 THEN groups[1]
    ELSE groups[1] \o <<sep>> \o JoinWith(Tail(groups), sep)

(***************************************************************************)
(* find_method_at_line: candidate and confirmation of a declaration        *)
(***************************************************************************)
ControlKeywords ==
    {"if", "while", "for", "switch", "catch", "try", "synchronized", "return", "new"}

DeclModifiers == {"public", "private", "protected", "void", "static"}

\* potential_name[0].isupper(): the tokens of the model that start upper case
UpperTokens == {"C", "Foo", "List<T>", "List"}

IsUpper(tok) == tok \in UpperTokens

\* stripped.startswith('//') or stripped.startswith('*')
LocCommentLine(stripped) ==
    stripped # <<>> /\ stripped[1] \in {"//", "*", "*/"}

\* re.sub(r'<[^>]+>', '', param) on one token
StripGeneric(tok) == IF tok = "List<T>" THEN "List" ELSE tok

\* param_type.split('.')[-1] on one token
LastSegment(tok) == IF tok = "a.B" THEN "B" ELSE tok

\* while ')' not in full_decl and temp_i < len(lines) - 1: join the next line
RECURSIVE JoinDecl(_, _, _)
JoinDecl(ls, full_decl, temp_i) ==
    IF ~Contains(full_decl, ")") /\ temp_i < Len(ls)
    THEN JoinDecl(ls, full_decl \o ls[temp_i + 1], temp_i + 1)
    ELSE [full_decl |-> full_decl, temp_i |-> temp_i]

\* range(i, min(temp_i + 3, len(lines))) reaches two lines past temp_i
BraceLookahead == 3

\* '{' in full_decl or any('{' in lines[j] for j in range(i, min(temp_i + 3, len(lines))))
HasBrace(ls, line_num, full_decl, temp_i) ==
    \/ Contains(full_decl, "{")
    \/ \E j \in line_num..(temp_i - 1 + BraceLookahead) :
            j <= Len(ls) /\ Contains(ls[j], "{")

\* '=' in full_decl.split('(')[0] or ';' in full_decl.split('{')[0]
\*     if '{' in full_decl else ';' in full_decl
\* Python reads this as (A or B) if C else D.
IsCall(full_decl) ==
    IF Contains(full_decl, "{")
    THEN \/ Contains(BeforeFirst(full_decl, "("), "=")
         \/ Contains(BeforeFirst(full_decl, "{"), ";")
    ELSE Contains(full_decl, ";")

\* the type of one parameter: parts[-2] of two or more tokens, else parts[0].
\* The parameter lists of the model hold no parenthesis, so a whitespace
\* separated part of the code is a token here.
RECURSIVE ParamTypes(_)
ParamTypes(groups) ==
    IF groups = <<>> THEN <<>>
    ELSE LET parts == SelectSeq(groups[1], LAMBDA t : StripGeneric(t) # "")
             rest == ParamTypes(Tail(groups))
         IN  IF groups[1] = <<>> \/ parts = <<>> THEN rest
             ELSE IF Len(parts) >= 2
                  THEN <<LastSegment(StripGeneric(parts[Len(parts) - 1]))>> \o rest
                  ELSE <<LastSegment(StripGeneric(parts[1]))>> \o rest

\* f"{method_name}({params})" with params = ','.join(param_types)
MethodSig(name, param_types) ==
    <<name, "(">> \o JoinWith([k \in 1..Len(param_types) |-> <<param_types[k]>>], ",")
        \o <<")">>

\* The declaration that starts at line line_num (1-based), if the line is a
\* confirmed declaration: <<[name, params]>>, else <<>>.
Declaration(ls, line_num) ==
    LET stripped == ls[line_num]
        tokens == BeforeFirst(stripped, "(")
    IN  IF ~(Contains(stripped, "(") /\ ~LocCommentLine(stripped)) THEN <<>>
        ELSE IF tokens = <<>> THEN <<>>
        ELSE IF Last(tokens) \in ControlKeywords THEN <<>>
        ELSE IF ~(\/ ContainsAny(stripped, DeclModifiers)
                  \/ (Len(tokens) >= 2 /\ ~IsUpper(Last(tokens)))) THEN <<>>
        ELSE LET joined == JoinDecl(ls, stripped, line_num)
                 full_decl == joined.full_decl
                 paren_start == IndexFrom(full_decl, "(", 1)
                 paren_end == IndexFrom(full_decl, ")", paren_start)
             IN  IF paren_end = 0 THEN <<>>      \* ValueError: pass
                 ELSE IF HasBrace(ls, line_num, full_decl, joined.temp_i)
                         /\ ~IsCall(full_decl)
                 THEN <<[name |-> Last(tokens),
                         params |-> ParamTypes(SplitOn(
                             SubSeq(full_decl, paren_start + 1, paren_end - 1), ","))]>>
                 ELSE <<>>

\* the frame pushed for a confirmed declaration
Frame(decl, line_num, depth, open_braces) ==
    [name |-> decl.name,
     signature |-> MethodSig(decl.name, decl.params),
     start_line |-> line_num,
     brace_depth_at_start |-> depth + open_braces,
     end_line |-> <<>>]

\* PushFrame that puts the frame at the bottom of the stack
PushFrameBottom(ls, line_num, stack, depth) ==
    LET decl == Declaration(ls, line_num)
    IN  IF decl # <<>>
        THEN <<Frame(decl[1], line_num, depth, Count(ls[line_num], "{"))>> \o stack
        ELSE stack

\* method_stack after the declaration check of one line
PushFrame(ls, line_num, stack, depth) ==
    LET decl == Declaration(ls, line_num)
    IN  IF decl # <<>>
        THEN Append(stack, Frame(decl[1], line_num, depth, Count(ls[line_num], "{")))
        ELSE stack

\* while method_stack and brace_depth < method_stack[-1]['brace_depth_at_start']
RECURSIVE PopLoop(_, _, _, _, _)
PopLoop(stack, depth, line_num, target, closed) ==
    IF stack # <<>> /\ depth < Last(stack).brace_depth_at_start
    THEN LET completed_method == [Last(stack) EXCEPT !.end_line = <<line_num>>]
         IN  IF completed_method.start_line <= target /\ target <= line_num
             THEN [stack |-> Front(stack), ret |-> <<completed_method>>, done |-> TRUE,
                   closed |-> Append(closed, completed_method)]
             ELSE PopLoop(Front(stack), depth, line_num, target,
                          Append(closed, completed_method))
    ELSE [stack |-> stack, ret |-> <<>>, done |-> FALSE, closed |-> closed]

\* One iteration of the scan loop on the state st = [i, stack, depth, ret, pc, closed]
ScanLine(ls, target, st) ==
    LET line_num == st.i + 1
        open_braces == Count(ls[line_num], "{")
        close_braces == Count(ls[line_num], "}")
        pushed == PushFrame(ls, line_num, st.stack, st.depth)
        depth == st.depth + open_braces - close_braces
        popped == PopLoop(pushed, depth, line_num, target, st.closed)
    IN  IF popped.done
        THEN [i |-> st.i, stack |-> popped.stack, depth |-> depth,
              ret |-> popped.ret, pc |-> "done", closed |-> popped.closed]
        ELSE IF popped.stack # <<>> /\ line_num = target
        THEN [i |-> st.i, stack |-> popped.stack, depth |-> depth,
              ret |-> <<Last(popped.stack)>>, pc |-> "done", closed |-> popped.closed]
        ELSE [i |-> st.i + 1, stack |-> popped.stack, depth |-> depth,
              ret |-> <<>>, pc |-> "scan", closed |-> popped.closed]

\* for method in method_stack: if method['start_line'] <= target_line: return method
FirstOpenFrame(stack, target) ==
    LET K == {k \in 1..Len(stack) : stack[k].start_line <= target}
    IN  IF K = {} THEN <<>> ELSE <<stack[SetMin(K)]>>

\* the code after the loop
ScanEnd(target, st) ==
    [st EXCEPT !.ret = FirstOpenFrame(st.stack, target), !.pc = "done"]

ScanInit ==
    [i |-> 0, stack |-> <<>>, depth |-> 0, ret |-> <<>>, pc |-> "scan", closed |-> <<>>]

RECURSIVE ScanFrom(_, _, _)
ScanFrom(ls, target, st) ==
    IF st.pc = "done" THEN st.ret
    ELSE IF st.i < Len(ls) THEN ScanFrom(ls, target, ScanLine(ls, target, st))
    ELSE ScanFrom(ls, target, ScanEnd(target, st))

\* find_method_at_line(file, target_line) on a readable file
FindMethodAtLine(ls, target) == ScanFrom(ls, target, ScanInit)

(***************************************************************************)
(* find_method_by_signature                                                *)
(***************************************************************************)
SigModifiers ==
    {"public", "private", "protected", "static", "final", "synchronized", "abstract"}

\* s.rstrip(')')
RECURSIVE RStrip(_, _)
RStrip(s, t) ==
    IF s # <<>> /\ Last(s) = t THEN RStrip(Front(s), t) ELSE s

\* len([p for p in entries if p.strip()])
NonEmptyCount(groups) == Cardinality({k \in 1..Len(groups) : groups[k] # <<>>})

\* sig_params = signature.split('(')[1].rstrip(')').split(',') if '(' in signature else []
\* sig_param_count = len([p for p in sig_params if p.strip()])
SigParamCount(sig) ==
    IF Contains(sig, "(")
    THEN NonEmptyCount(SplitOn(RStrip(SplitOn(sig, "(")[2], ")"), ","))
    ELSE 0

\* method_name + '(' in stripped or method_name + ' (' in stripped
HasNameParen(stripped, name) ==
    \E k \in 1..(Len(stripped) - 1) : stripped[k] = name /\ stripped[k + 1] = "("

\* The line is taken for a declaration of name: a modifier before the name,
\* or the name first on the line and directly followed by "(".
\* `before` is stripped, so before.endswith(' ') never holds and the elif
\* branch is taken only for before == ''.
SigIsDecl(stripped, name) ==
    LET before_idx == IndexFrom(stripped, name, 1)
        before == SubSeq(stripped, 1, before_idx - 1)
    IN  \/ ContainsAny(before, SigModifiers)
        \/ /\ before = <<>>
           /\ before_idx < Len(stripped)
           /\ stripped[before_idx + 1] = "("

\* while ')' not in combined and j < min(i + 10, len(lines))
SigJoinLimit == 10

RECURSIVE SigCombine(_, _, _, _)
SigCombine(ls, combined, j, line_num) ==
    IF ~Contains(combined, ")") /\ j <= Len(ls) /\ j <= line_num - 1 + SigJoinLimit
    THEN SigCombine(ls, combined \o ls[j], j + 1, line_num)
    ELSE combined

\* the parameter count of the combined declaration text: <<n>>, or <<>> on
\* ValueError (no parenthesis pair after the name)
SigDeclParams(combined, name) ==
    LET name_at == IndexFrom(combined, name, 1)
        paren_start == IndexFrom(combined, "(", name_at + 1)
        paren_end == IF paren_start = 0 THEN 0 ELSE IndexFrom(combined, ")", paren_start)
    IN  IF paren_start = 0 \/ paren_end = 0 THEN <<>>
        ELSE <<NonEmptyCount(SplitOn(SubSeq(combined, paren_start + 1, paren_end - 1), ","))>>

\* SigAccepts without the comparison of the two counts
SigAcceptsAnyCount(param_count, sig_param_count) == TRUE

\* if param_count == sig_param_count
SigAccepts(param_count, sig_param_count) == param_count = sig_param_count

\* One iteration of the line loop on st = [i, in_comment, ret, pc]
SigLine(ls, name, sig, st) ==
    LET line_num == st.i + 1
        stripped == ls[line_num]
        skip == [st EXCEPT !.i = st.i + 1]
    IN  IF Contains(stripped, "/*") /\ ~Contains(stripped, "*/")
        THEN [skip EXCEPT !.in_comment = TRUE]
        ELSE IF Contains(stripped, "*/")
        THEN [skip EXCEPT !.in_comment = FALSE]
        ELSE IF st.in_comment \/ LocCommentLine(stripped) THEN skip
        ELSE IF ~HasNameParen(stripped, name) THEN skip
        ELSE IF ~SigIsDecl(stripped, name) THEN skip
        ELSE LET count == SigDeclParams(SigCombine(ls, stripped, line_num + 1, line_num), name)
             IN  IF count # <<>> /\ SigAccepts(count[1], SigParamCount(sig))
                 THEN [st EXCEPT !.ret = <<[name |-> name, start_line |-> line_num]>>,
                                 !.pc = "done"]
                 ELSE skip

SigInit == [i |-> 0, in_comment |-> FALSE, ret |-> <<>>, pc |-> "scan"]

RECURSIVE SigFrom(_, _, _, _)
SigFrom(ls, name, sig, st) ==
    IF st.pc = "done" THEN st.ret
    ELSE IF st.i < Len(ls) THEN SigFrom(ls, name, sig, SigLine(ls, name, sig, st))
    ELSE <<>>

\* find_method_by_signature(file, method_name, signature) on a readable file
FindMethodBySignature(ls, name, sig) == SigFrom(ls, name, sig, SigInit)

(***************************************************************************)
(* extract_modified_methods: the diff parser                               *)
(***************************************************************************)
StartsWith(s, prefix) ==
    Len(s) >= Len(prefix) /\ SubSeq(s, 1, Len(prefix)) = prefix

Digits == {"0", "1", "2", "3", "4", "5", "6", "7", "8", "9"}

DigitVal(c) ==
    CASE c = "0" -> 0 [] c = "1" -> 1 [] c = "2" -> 2 [] c = "3" -> 3 [] c = "4" -> 4
      [] c = "5" -> 5 [] c = "6" -> 6 [] c = "7" -> 7 [] c = "8" -> 8 [] c = "9" -> 9

\* the position after the run of digits that starts at p: \d+ matched iff > p
RECURSIVE DigitsEnd(_, _)
DigitsEnd(s, p) ==
    IF p <= Len(s) /\ s[p] \in Digits THEN DigitsEnd(s, p + 1) ELSE p

\* int(s[p..q-1])
RECURSIVE NumVal(_, _, _)
NumVal(s, p, q) ==
    IF p >= q THEN 0 ELSE NumVal(s, p, q - 1) * 10 + DigitVal(s[q - 1])

\* (?:,(\d+))? at p: the position after it
OptCount(s, p) ==
    IF p <= Len(s) /\ s[p] = "," /\ DigitsEnd(s, p + 1) > p + 1
    THEN DigitsEnd(s, p + 1)
    ELSE p

LitAt(s, p, chars) ==
    p + Len(chars) - 1 <= Len(s) /\ SubSeq(s, p, p + Len(chars) - 1) = chars

\* re.match(r'@@ -(\d+)(?:,(\d+))? \+(\d+)(?:,(\d+))? @@', line):
\* <<[old_start, new_start]>> (groups 1 and 3), or <<>> when there is no match
HunkHeader(s) ==
    IF ~LitAt(s, 1, <<"@", "@", " ", "-">>) THEN <<>>
    ELSE LET a == DigitsEnd(s, 5)
             b == OptCount(s, a)
             c == DigitsEnd(s, b + 2)
             d == OptCount(s, c)
         IN  IF a = 5 \/ ~LitAt(s, b, <<" ", "+">>) THEN <<>>
             ELSE IF c = b + 2 \/ ~LitAt(s, d, <<" ", "@", "@">>) THEN <<>>
             ELSE <<[old_start |-> NumVal(s, 5, a), new_start |-> NumVal(s, b + 2, c)]>>

\* elif line.startswith('-') and not line.startswith('---')
IsRemoval(line) == StartsWith(line, <<"-">>) /\ ~StartsWith(line, <<"-", "-", "-">>)

\* elif line.startswith('+') and not line.startswith('+++')
IsAddition(line) == StartsWith(line, <<"+">>) /\ ~StartsWith(line, <<"+", "+", "+">>)

\* One iteration of `for line in diff_output.split('\n')` on
\* st = [buggy, fixed, cur_buggy, cur_fixed]
ParseDiffLine(line, st) ==
    IF StartsWith(line, <<"@", "@">>)
    THEN LET match == HunkHeader(line)
         IN  IF match # <<>>
             THEN [st EXCEPT !.cur_buggy = match[1].old_start,
                             !.cur_fixed = match[1].new_start]
             ELSE st
    ELSE IF IsRemoval(line)
    THEN [st EXCEPT !.buggy = st.buggy \cup {st.cur_buggy},
                    !.cur_buggy = st.cur_buggy + 1]
    ELSE IF IsAddition(line)
    THEN [st EXCEPT !.fixed = st.fixed \cup {st.cur_fixed},
                    !.cur_fixed = st.cur_fixed + 1]
    ELSE IF ~StartsWith(line, <<"\\">>)
    THEN [st EXCEPT !.cur_buggy = st.cur_buggy + 1,
                    !.cur_fixed = st.cur_fixed + 1]
    ELSE st

\* changed_lines_buggy = set(); changed_lines_fixed = set(); cursors = 0
ParseInit == [buggy |-> {}, fixed |-> {}, cur_buggy |-> 0, cur_fixed |-> 0]

RECURSIVE ParseFrom(_, _, _)
ParseFrom(text, k, st) ==
    IF k > Len(text) THEN st ELSE ParseFrom(text, k + 1, ParseDiffLine(text[k], st))

\* the whole parse loop over a non-empty diff text
ParseDiff(text) == ParseFrom(text, 1, ParseInit)

(***************************************************************************)
(* run_cmd: the output of the command, stripped                            *)
(***************************************************************************)
IsBlank(line) == \A k \in 1..Len(line) : line[k] = " "

RECURSIVE LStripLine(_)
LStripLine(line) ==
    IF line # <<>> /\ line[1] = " " THEN LStripLine(Tail(line)) ELSE line

RECURSIVE RStripLine(_)
RStripLine(line) ==
    IF line # <<>> /\ Last(line) = " " THEN RStripLine(Front(line)) ELSE line

RECURSIVE DropBlankHead(_)
DropBlankHead(text) ==
    IF text # <<>> /\ IsBlank(text[1]) THEN DropBlankHead(Tail(text)) ELSE text

RECURSIVE DropBlankTail(_)
DropBlankTail(text) ==
    IF text # <<>> /\ IsBlank(Last(text)) THEN DropBlankTail(Front(text)) ELSE text

\* result.stdout.strip(), on a text given as its lines; the empty string
\* is the text of no lines
StripOutput(text) ==
    LET t == DropBlankTail(DropBlankHead(text))
    IN  IF t = <<>> THEN <<>>
        ELSE IF Len(t) = 1 THEN <<RStripLine(LStripLine(t[1]))>>
        ELSE <<LStripLine(t[1])>> \o SubSeq(t, 2, Len(t) - 1) \o <<RStripLine(Last(t))>>

(***************************************************************************)
(* Source lines the files of the model are made of                         *)
(***************************************************************************)
LineKR == <<"void", "f", "(", ")", "{">>
LineAllman == <<"void", "g", "(", "int", "a", ")">>
LineOpen == <<"{">>
LineClose == <<"}">>
LineStmt == <<"x", "=", "1", ";">>
LineClass == <<"class", "C", "{">>
LineAssign == <<"Runnable", "r", "=", "create", "(", ")">>
LineOneLine == <<"void", "h", "(", ")", "{", "}">>

LocLines ==
    {LineKR, LineAllman, LineOpen, LineClose, LineStmt, LineClass, LineAssign, LineOneLine}

FilesUpTo(n) == UNION {[1..k -> LocLines] : k \in 0..n}

SigDecl1 == <<"public", "void", "f", "(", "int", "a", ")", "{">>
SigDeclOpen == <<"public", "void", "f", "(">>
SigDeclRest == <<"int", "a", ",", "int", "b", ")", "{">>
SigCall == <<"f", "(", "x", ",", "y", ")", ";">>
SigDecl0 == <<"private", "int", "g", "(", ")", "{">>
CommentOpen == <<"/*">>
CommentClose == <<"*/">>

SigLines == {SigDecl1, SigDeclOpen, SigDeclRest, SigCall, SigDecl0, CommentOpen, CommentClose}

SigFilesUpTo(n) == UNION {[1..k -> SigLines] : k \in 0..n}

SigNames == {"f", "g"}

\* the signatures asked for: of the form find_method_at_line builds
SigsOf(name) ==
    {MethodSig(name, types) : types \in {<<>>, <<"int">>, <<"int", "int">>}}

(***************************************************************************)
(* find_method_at_line as a state machine: one step per scanned line       *)
(***************************************************************************)
LocIdle ==
    /\ target_line = 0
    /\ method_stack = <<>>
    /\ brace_depth = 0
    /\ loc_result = <<>>
    /\ loc_pc = "idle"
    /\ closed_spans = <<>>

SigIdle ==
    /\ method_name = ""
    /\ signature = <<>>
    /\ in_comment = FALSE
    /\ sig_result = <<>>
    /\ sig_pc = "idle"

PipeIdle ==
    /\ modified_classes = <<>>
    /\ edits = {}
    /\ cls_idx = 0
    /\ methods_found = <<>>
    /\ todo = {}
    /\ fb_idx = 0
    /\ modified_methods = <<>>
    /\ visit_log = <<>>
    /\ created = {}
    /\ prev = <<>>

ParseIdle ==
    /\ diff_output = <<>>
    /\ diff_i = 0
    /\ changed_lines_buggy = {}
    /\ changed_lines_fixed = {}
    /\ current_buggy_line = 0
    /\ current_fixed_line = 0

LocState ==
    [i |-> i, stack |-> method_stack, depth |-> brace_depth,
     ret |-> loc_result, pc |-> loc_pc, closed |-> closed_spans]

LocSet(st) ==
    /\ i' = st.i
    /\ method_stack' = st.stack
    /\ brace_depth' = st.depth
    /\ loc_result' = st.ret
    /\ loc_pc' = st.pc
    /\ closed_spans' = st.closed

InitLoc ==
    /\ lines \in FilesUpTo(MaxFileLen)
    /\ target_line \in 1..(MaxFileLen + 1)
    /\ i = 0
    /\ method_stack = <<>>
    /\ brace_depth = 0
    /\ loc_result = <<>>
    /\ loc_pc = "scan"
    /\ closed_spans = <<>>
    /\ SigIdle
    /\ ParseIdle
    /\ PipeIdle
    /\ pc = "idle"

LocScanLine ==
    /\ loc_pc = "scan"
    /\ i < Len(lines)
    /\ LocSet(ScanLine(lines, target_line, LocState))
    /\ UNCHANGED <<lines, target_line, sigVars, parseVars, pc, pipeVars>>

LocScanEnd ==
    /\ loc_pc = "scan"
    /\ i >= Len(lines)
    /\ LocSet(ScanEnd(target_line, LocState))
    /\ UNCHANGED <<lines, target_line, sigVars, parseVars, pc, pipeVars>>

NextLoc == LocScanLine \/ LocScanEnd

SpecLoc == InitLoc /\ [][NextLoc]_vars

(***************************************************************************)
(* find_method_by_signature as a state machine: one step per line          *)
(***************************************************************************)
SigState == [i |-> i, in_comment |-> in_comment, ret |-> sig_result, pc |-> sig_pc]

SigSet(st) ==
    /\ i' = st.i
    /\ in_comment' = st.in_comment
    /\ sig_result' = st.ret
    /\ sig_pc' = st.pc

InitSig ==
    /\ lines \in SigFilesUpTo(MaxSigFileLen)
    /\ method_name \in SigNames
    /\ signature \in SigsOf(method_name)
    /\ i = 0
    /\ in_comment = FALSE
    /\ sig_result = <<>>
    /\ sig_pc = "scan"
    /\ LocIdle
    /\ ParseIdle
    /\ PipeIdle
    /\ pc = "idle"

SigScanLine ==
    /\ sig_pc = "scan"
    /\ i < Len(lines)
    /\ SigSet(SigLine(lines, method_name, signature, SigState))
    /\ UNCHANGED <<lines, method_name, signature, locVars, parseVars, pc, pipeVars>>

\* the loop ends without a match: return None
SigScanEnd ==
    /\ sig_pc = "scan"
    /\ i >= Len(lines)
    /\ sig_pc' = "done"
    /\ UNCHANGED <<lines, i, method_name, signature, in_comment, sig_result, locVars,
                   parseVars, pc, pipeVars>>

NextSig == SigScanLine \/ SigScanEnd

SpecSig == InitSig /\ [][NextSig]_vars

(***************************************************************************)
(* The diff parser as a state machine: one step per line of the diff text  *)
(***************************************************************************)
FileHeaderOld == <<"-", "-", "-", " ", "a">>
FileHeaderNew == <<"+", "+", "+", " ", "b">>
Header11 == <<"@", "@", " ", "-", "1", " ", "+", "1", " ", "@", "@">>
Header10 == <<"@", "@", " ", "-", "1", " ", "+", "0", ",", "0", " ", "@", "@">>
Header01 == <<"@", "@", " ", "-", "0", ",", "0", " ", "+", "1", " ", "@", "@">>
HeaderBad == <<"@", "@", " ", "-", "1", " ", "+", "1">>
Removed == <<"-", "x">>
Added == <<"+", "x">>
ContextLine == <<" ", "x">>
NoNewline == <<"\\", " ", "N">>
RemovedDashes == <<"-", "-", "-", "x">>     \* the removed line "--x"
AddedPluses == <<"+", "+", "+", "x">>       \* the added line "++x"

DiffLines ==
    {FileHeaderOld, FileHeaderNew, Header11, Header10, Header01, HeaderBad, Removed,
     Added, ContextLine, NoNewline, RemovedDashes, AddedPluses}

\* the diff texts run_cmd can hand over: stripped, and not empty
DiffTexts(n) ==
    {t \in UNION {[1..k -> DiffLines] : k \in 1..n} : StripOutput(t) = t}

ParseState ==
    [buggy |-> changed_lines_buggy, fixed |-> changed_lines_fixed,
     cur_buggy |-> current_buggy_line, cur_fixed |-> current_fixed_line]

ParseSet(st) ==
    /\ changed_lines_buggy' = st.buggy
    /\ changed_lines_fixed' = st.fixed
    /\ current_buggy_line' = st.cur_buggy
    /\ current_fixed_line' = st.cur_fixed

InitDiff ==
    /\ diff_output \in DiffTexts(MaxDiffLen)
    /\ diff_i = 0
    /\ changed_lines_buggy = ParseInit.buggy
    /\ changed_lines_fixed = ParseInit.fixed
    /\ current_buggy_line = ParseInit.cur_buggy
    /\ current_fixed_line = ParseInit.cur_fixed
    /\ pc = "parse"
    /\ lines = <<>>
    /\ i = 0
    /\ LocIdle
    /\ SigIdle
    /\ PipeIdle

DiffParseLine ==
    /\ pc = "parse"
    /\ diff_i < Len(diff_output)
    /\ ParseSet(ParseDiffLine(diff_output[diff_i + 1], ParseState))
    /\ diff_i' = diff_i + 1
    /\ UNCHANGED <<diff_output, pc, lines, i, locVars, sigVars, pipeVars>>

\* the loop over the diff text is over
DiffParseEnd ==
    /\ pc = "parse"
    /\ diff_i >= Len(diff_output)
    /\ pc' = "parsed"
    /\ UNCHANGED <<parseVars, lines, i, locVars, sigVars, pipeVars>>

NextDiff == DiffParseLine \/ DiffParseEnd

SpecDiff == InitDiff /\ [][NextDiff]_vars

(***************************************************************************)
(* The file pairs of the model and the diff command                        *)
(***************************************************************************)
ClassA == <<"p", "A">>      \* p.A: the fixed file is the buggy file edited
ClassB == <<"p", "B">>      \* p.B: the two files are identical
ClassM == <<"p", "M">>      \* p.M: no source file is found
ClassNames == {<<>>, ClassA, ClassB, ClassM}

\* file_path = cls.replace('.', '/') + '.java'
FilePath(cls) == JoinWith([k \in 1..Len(cls) |-> <<cls[k]>>], "/") \o <<".java">>

DeclF == <<"public", "void", "f", "(", ")", "{">>
DeclG == <<"public", "void", "g", "(", "int", "a", ")", "{">>
DeclH == <<"public", "void", "h", "(", ")", "{", "}">>
StmtY == <<"y", "=", "2", ";">>

\* the buggy file of every class
BaseFile == <<DeclF, LineStmt, LineClose, DeclG, LineStmt, LineClose>>

\* the lines an edit may insert
InsLines == {StmtY, DeclH}

\* an edit deletes base line `at`, or inserts a line after base line `at`
Edits ==
    {[kind |-> "del", at |-> k, line |-> BaseFile[k]] : k \in 1..Len(BaseFile)}
    \cup {[kind |-> "ins", at |-> k, line |-> l] : k \in 0..Len(BaseFile), l \in InsLines}

RECURSIVE EditSetsUpTo(_)
EditSetsUpTo(n) ==
    IF n = 0 THEN {{}}
    ELSE LET S == EditSetsUpTo(n - 1) IN S \cup {E \cup {e} : E \in S, e \in Edits}

\* at most n edits, at most one insertion per place
Scripts(n) ==
    {E \in EditSetsUpTo(n) :
        \A e1, e2 \in E : (e1.kind = "ins" /\ e2.kind = "ins" /\ e1.at = e2.at) => e1 = e2}

\* the edit script line by line: keep, del or ins
RECURSIVE OpsFrom(_, _)
OpsFrom(E, k) ==
    LET ins == {e \in E : e.kind = "ins" /\ e.at = k}
        insOps == IF ins = {} THEN <<>>
                  ELSE <<[op |-> "ins", line |-> (CHOOSE e \in ins : TRUE).line]>>
    IN  IF k >= Len(BaseFile) THEN insOps
        ELSE insOps
             \o <<[op |-> IF \E e \in E : e.kind = "del" /\ e.at = k + 1
                          THEN "del" ELSE "keep",
                   line |-> BaseFile[k + 1]]>>
             \o OpsFrom(E, k + 1)

\* diff prints the removed lines of a change before its added lines
RECURSIVE RemovalsFirst(_)
RemovalsFirst(ops) ==
    LET K == {k \in 1..(Len(ops) - 1) : ops[k].op = "ins" /\ ops[k + 1].op = "del"}
    IN  IF K = {} THEN ops
        ELSE LET k == SetMin(K)
             IN  RemovalsFirst([ops EXCEPT ![k] = ops[k + 1], ![k + 1] = ops[k]])

OpLines(ops) == [k \in 1..Len(ops) |-> ops[k].line]

OldText(ops) == OpLines(SelectSeq(ops, LAMBDA o : o.op \in {"keep", "del"}))

NewText(ops) == OpLines(SelectSeq(ops, LAMBDA o : o.op \in {"keep", "ins"}))

\* the edit script between the two files of a class
ClassOps(cls, E) == RemovalsFirst(IF cls = ClassA THEN OpsFrom(E, 0) ELSE OpsFrom({}, 0))

\* os.path.exists on both paths, or the search by file name, finds the files
FilesFound(cls) == cls \in {ClassA, ClassB}

\* content.split('\n') of a text whose lines all end with a newline
ReadLines(text) == text \o <<<<>>>>

BuggyLines(cls, E) == ReadLines(OldText(ClassOps(cls, E)))

FixedLines(cls, E) == ReadLines(NewText(ClassOps(cls, E)))

\* diff -U3: three lines of context
Context == 3

DigitChar(d) ==
    CASE d = 0 -> "0" [] d = 1 -> "1" [] d = 2 -> "2" [] d = 3 -> "3" [] d = 4 -> "4"
      [] d = 5 -> "5" [] d = 6 -> "6" [] d = 7 -> "7" [] d = 8 -> "8" [] d = 9 -> "9"

RECURSIVE NumChars(_)
NumChars(n) ==
    IF n < 10 THEN <<DigitChar(n)>> ELSE NumChars(n \div 10) \o <<DigitChar(n % 10)>>

\* a range of a hunk header: start[,count]; an empty range names the line
\* before it, a range of one line leaves the count out
RangeChars(lines_before, count) ==
    IF count = 0 THEN NumChars(lines_before) \o <<",", "0">>
    ELSE IF count = 1 THEN NumChars(lines_before + 1)
    ELSE NumChars(lines_before + 1) \o <<",">> \o NumChars(count)

OldCount(ops, a, b) == Cardinality({k \in a..b : ops[k].op \in {"keep", "del"}})

NewCount(ops, a, b) == Cardinality({k \in a..b : ops[k].op \in {"keep", "ins"}})

HunkHeaderLine(ops, a, b) ==
    <<"@", "@", " ", "-">> \o RangeChars(OldCount(ops, 1, a - 1), OldCount(ops, a, b))
        \o <<" ", "+">> \o RangeChars(NewCount(ops, 1, a - 1), NewCount(ops, a, b))
        \o <<" ", "@", "@">>

\* the first characters of a source line, all the parser reads of a body line
LeadChars(line) ==
    IF line = <<>> THEN <<>>
    ELSE IF line[1] = "--" THEN <<"-", "-">>
    ELSE IF line[1] = "++" THEN <<"+", "+">>
    ELSE <<"x">>

BodyLine(o) ==
    <<(CASE o.op = "keep" -> " " [] o.op = "del" -> "-" [] o.op = "ins" -> "+")>>
        \o LeadChars(o.line)

\* the script lines a hunk shows: the changed ones and their context
InHunk(ops) ==
    {k \in 1..Len(ops) :
        \E j \in 1..Len(ops) : ops[j].op # "keep" /\ k - j <= Context /\ j - k <= Context}

RECURSIVE HunksFrom(_, _)
HunksFrom(ops, k) ==
    IF k > Len(ops) THEN <<>>
    ELSE IF k \notin InHunk(ops) THEN HunksFrom(ops, k + 1)
    ELSE LET b == CHOOSE m \in k..Len(ops) :
                      /\ \A j \in k..m : j \in InHunk(ops)
                      /\ (m + 1) \notin InHunk(ops)
         IN  <<HunkHeaderLine(ops, k, b)>>
             \o [j \in 1..(b - k + 1) |-> BodyLine(ops[k + j - 1])]
             \o HunksFrom(ops, b + 1)

\* the output of diff -U3 buggy_file fixed_file
UnifiedDiff(ops) ==
    IF OldText(ops) = NewText(ops) THEN <<>>
    ELSE <<FileHeaderOld, FileHeaderNew>> \o HunksFrom(ops, 1)

\* diff_output, _ = run_cmd(diff_cmd)
RunDiff(ops) == StripOutput(UnifiedDiff(ops))

(***************************************************************************)
(* extract_modified_methods: merging and the fallback                      *)
(***************************************************************************)
\* modified_methods = []
FreshResult(earlier) == <<>>

\* NoDiff without the test: an empty diff is parsed like any other
NoDiffIgnored(text) == FALSE

\* if not diff_output: continue
NoDiff(text) == text = <<>>

\* the index of the record with this key in the dict (0: not in it)
KeyIndex(found, key) ==
    LET K == {k \in 1..Len(found) : found[k].method = key}
    IN  IF K = {} THEN 0 ELSE SetMin(K)

NewRecord(cls, info, buggy, fixed) ==
    [file |-> FilePath(cls), class |-> cls, method |-> info.signature,
     method_name |-> info.name, line_start_buggy |-> buggy, line_start_fixed |-> fixed]

\* MergeFixed that takes the start line of every located span
MergeFixedOverwrite(found, cls, info) ==
    LET k == KeyIndex(found, info.signature)
    IN  IF k = 0
        THEN Append(found, NewRecord(cls, info, <<>>, <<info.start_line>>))
        ELSE [found EXCEPT ![k].line_start_fixed = <<info.start_line>>]

\* the body of `for line_num in changed_lines_fixed` for one located method
MergeFixed(found, cls, info) ==
    LET k == KeyIndex(found, info.signature)
        found1 == IF k = 0
                  THEN Append(found, NewRecord(cls, info, <<>>, <<info.start_line>>))
                  ELSE found
        k1 == KeyIndex(found1, info.signature)
    IN  IF found1[k1].line_start_fixed = <<>>
        THEN [found1 EXCEPT ![k1].line_start_fixed = <<info.start_line>>]
        ELSE found1

\* the body of `for line_num in changed_lines_buggy` for one located method
MergeBuggy(found, cls, info) ==
    LET k == KeyIndex(found, info.signature)
    IN  IF k = 0
        THEN Append(found, NewRecord(cls, info, <<info.start_line>>, <<>>))
        ELSE IF found[k].line_start_buggy = <<>>
        THEN [found EXCEPT ![k].line_start_buggy = <<info.start_line>>]
        ELSE found

\* FallbackRecord with the two files taken for each other
FallbackRecordSwapped(r, buggy_lines, fixed_lines) ==
    LET buggy_method ==
            IF r.line_start_buggy = <<>>
            THEN FindMethodBySignature(fixed_lines, r.method_name, r.method)
            ELSE <<>>
        r1 == IF buggy_method # <<>>
              THEN [r EXCEPT !.line_start_buggy = <<buggy_method[1].start_line>>]
              ELSE r
        fixed_method ==
            IF r1.line_start_fixed = <<>>
            THEN FindMethodBySignature(buggy_lines, r1.method_name, r1.method)
            ELSE <<>>
    IN  IF fixed_method # <<>>
        THEN [r1 EXCEPT !.line_start_fixed = <<fixed_method[1].start_line>>]
        ELSE r1

\* the body of the fallback loop for one record
FallbackRecord(r, buggy_lines, fixed_lines) ==
    LET buggy_method ==
            IF r.line_start_buggy = <<>>
            THEN FindMethodBySignature(buggy_lines, r.method_name, r.method)
            ELSE <<>>
        r1 == IF buggy_method # <<>>
              THEN [r EXCEPT !.line_start_buggy = <<buggy_method[1].start_line>>]
              ELSE r
        fixed_method ==
            IF r1.line_start_fixed = <<>>
            THEN FindMethodBySignature(fixed_lines, r1.method_name, r1.method)
            ELSE <<>>
    IN  IF fixed_method # <<>>
        THEN [r1 EXCEPT !.line_start_fixed = <<fixed_method[1].start_line>>]
        ELSE r1

\* Emitted keeping only the records resolved on both sides
EmittedResolved(found) ==
    SelectSeq(found, LAMBDA r : r.line_start_buggy # <<>> /\ r.line_start_fixed # <<>>)

\* for method_data in methods_found.values(): modified_methods.append(method_data)
Emitted(found) == found

(***************************************************************************)
(* extract_modified_methods as a state machine                             *)
(***************************************************************************)
Cls == modified_classes[cls_idx + 1]

AtClass == pc = "class" /\ cls_idx < Len(modified_classes)

Init ==
    /\ modified_classes \in UNION {[1..n -> ClassNames] : n \in 1..MaxClasses}
    /\ edits \in Scripts(MaxEdits)
    /\ cls_idx = 0
    /\ methods_found = <<>>
    /\ todo = {}
    /\ fb_idx = 0
    /\ modified_methods = FreshResult(<<>>)
    /\ visit_log = <<>>
    /\ created = {}
    /\ prev = <<>>
    /\ pc = "class"
    /\ ParseIdle
    /\ lines = <<>>
    /\ i = 0
    /\ LocIdle
    /\ SigIdle

\* if not cls: continue
SkipEmptyName ==
    /\ AtClass
    /\ Cls = <<>>
    /\ cls_idx' = cls_idx + 1
    /\ UNCHANGED <<modified_classes, edits, methods_found, todo, fb_idx, modified_methods,
                   visit_log, created, prev, pc, parseVars, lines, i, locVars, sigVars>>

\* Warning: Could not find files for class; continue
SkipMissing ==
    /\ AtClass
    /\ Cls # <<>>
    /\ ~FilesFound(Cls)
    /\ cls_idx' = cls_idx + 1
    /\ UNCHANGED <<modified_classes, edits, methods_found, todo, fb_idx, modified_methods,
                   visit_log, created, prev, pc, parseVars, lines, i, locVars, sigVars>>

\* the diff is empty: continue
SkipClass ==
    /\ AtClass
    /\ Cls # <<>>
    /\ FilesFound(Cls)
    /\ NoDiff(RunDiff(ClassOps(Cls, edits)))
    /\ diff_output' = RunDiff(ClassOps(Cls, edits))
    /\ cls_idx' = cls_idx + 1
    /\ UNCHANGED <<modified_classes, edits, methods_found, todo, fb_idx, modified_methods,
                   visit_log, created, prev, pc, diff_i, changed_lines_buggy,
                   changed_lines_fixed, current_buggy_line, current_fixed_line,
                   lines, i, locVars, sigVars>>

\* the diff is parsed, methods_found = {}, the loop over changed_lines_fixed starts
BeginClass ==
    /\ AtClass
    /\ Cls # <<>>
    /\ FilesFound(Cls)
    /\ ~NoDiff(RunDiff(ClassOps(Cls, edits)))
    /\ diff_output' = RunDiff(ClassOps(Cls, edits))
    /\ diff_i' = Len(diff_output')
    /\ ParseSet(ParseDiff(diff_output'))
    /\ methods_found' = <<>>
    /\ todo' = changed_lines_fixed'
    /\ pc' = "fixed"
    /\ UNCHANGED <<modified_classes, edits, cls_idx, fb_idx, modified_methods, visit_log,
                   created, prev, lines, i, locVars, sigVars>>

\* one iteration of `for line_num in changed_lines_fixed`, in any order
LocateFixed ==
    /\ pc = "fixed"
    /\ \E line_num \in todo :
        LET method_info == FindMethodAtLine(FixedLines(Cls, edits), line_num)
        IN  /\ todo' = todo \ {line_num}
            /\ visit_log' = Append(visit_log, <<"fixed", line_num>>)
            /\ IF method_info # <<>>
               THEN /\ methods_found' = MergeFixed(methods_found, Cls, method_info[1])
                    /\ created' = created \cup
                          {[class |-> Cls, method |-> method_info[1].signature]}
               ELSE UNCHANGED <<methods_found, created>>
    /\ UNCHANGED <<modified_classes, edits, cls_idx, fb_idx, modified_methods, prev, pc,
                   parseVars, lines, i, locVars, sigVars>>

\* the loop over changed_lines_fixed is over, the one over changed_lines_buggy starts
FixedDone ==
    /\ pc = "fixed"
    /\ todo = {}
    /\ todo' = changed_lines_buggy
    /\ pc' = "buggy"
    /\ UNCHANGED <<modified_classes, edits, cls_idx, methods_found, fb_idx,
                   modified_methods, visit_log, created, prev, parseVars, lines, i,
                   locVars, sigVars>>

\* one iteration of `for line_num in changed_lines_buggy`, in any order
LocateBuggy ==
    /\ pc = "buggy"
    /\ \E line_num \in todo :
        LET method_info == FindMethodAtLine(BuggyLines(Cls, edits), line_num)
        IN  /\ todo' = todo \ {line_num}
            /\ visit_log' = Append(visit_log, <<"buggy", line_num>>)
            /\ IF method_info # <<>>
               THEN /\ methods_found' = MergeBuggy(methods_found, Cls, method_info[1])
                    /\ created' = created \cup
                          {[class |-> Cls, method |-> method_info[1].signature]}
               ELSE UNCHANGED <<methods_found, created>>
    /\ UNCHANGED <<modified_classes, edits, cls_idx, fb_idx, modified_methods, prev, pc,
                   parseVars, lines, i, locVars, sigVars>>

\* the loop over changed_lines_buggy is over, the fallback loop starts
BuggyDone ==
    /\ pc = "buggy"
    /\ todo = {}
    /\ fb_idx' = 0
    /\ pc' = "fallback"
    /\ UNCHANGED <<modified_classes, edits, cls_idx, methods_found, todo,
                   modified_methods, visit_log, created, prev, parseVars, lines, i,
                   locVars, sigVars>>

\* one iteration of `for method_key, method_data in methods_found.items()`
Fallback ==
    /\ pc = "fallback"
    /\ fb_idx < Len(methods_found)
    /\ methods_found' =
          [methods_found EXCEPT ![fb_idx + 1] =
              FallbackRecord(methods_found[fb_idx + 1], BuggyLines(Cls, edits),
                             FixedLines(Cls, edits))]
    /\ fb_idx' = fb_idx + 1
    /\ UNCHANGED <<modified_classes, edits, cls_idx, todo, modified_methods, visit_log,
                   created, prev, pc, parseVars, lines, i, locVars, sigVars>>

\* the records of the class are appended to the result; next class
EmitRecords ==
    /\ pc = "fallback"
    /\ fb_idx >= Len(methods_found)
    /\ modified_methods' = modified_methods \o Emitted(methods_found)
    /\ cls_idx' = cls_idx + 1
    /\ pc' = "class"
    /\ UNCHANGED <<modified_classes, edits, methods_found, todo, fb_idx, visit_log,
                   created, prev, parseVars, lines, i, locVars, sigVars>>

\* return modified_methods
Return ==
    /\ pc = "class"
    /\ cls_idx >= Len(modified_classes)
    /\ pc' = "done"
    /\ UNCHANGED <<pipeVars, parseVars, lines, i, locVars, sigVars>>

Next ==
    \/ SkipEmptyName
    \/ SkipMissing
    \/ SkipClass
    \/ BeginClass
    \/ LocateFixed
    \/ FixedDone
    \/ LocateBuggy
    \/ BuggyDone
    \/ Fallback
    \/ EmitRecords
    \/ Return

Spec == Init /\ [][Next]_vars

(***************************************************************************)
(* Two calls of extract_modified_methods on the same file pair             *)
(***************************************************************************)
InitTwice ==
    /\ Init
    /\ Len(modified_classes) = 1

\* the caller keeps the returned list and calls again with the same arguments
RunAgain ==
    /\ pc = "done"
    /\ prev = <<>>
    /\ prev' = <<modified_methods>>
    /\ modified_methods' = FreshResult(modified_methods)
    /\ cls_idx' = 0
    /\ methods_found' = <<>>
    /\ todo' = {}
    /\ fb_idx' = 0
    /\ visit_log' = <<>>
    /\ created' = {}
    /\ diff_output' = <<>>
    /\ diff_i' = 0
    /\ ParseSet(ParseInit)
    /\ pc' = "class"
    /\ UNCHANGED <<modified_classes, edits, lines, i, locVars, sigVars>>

NextTwice ==
    \/ Next
    \/ RunAgain

SpecTwice == InitTwice /\ [][NextTwice]_vars

(***************************************************************************)
(* Claims about find_method_at_line                                        *)
(***************************************************************************)
\* brace depth after line n: the unmatched "{" of lines 1..n
RECURSIVE DepthAfter(_, _)
DepthAfter(ls, n) ==
    IF n = 0 THEN 0
    ELSE DepthAfter(ls, n - 1) + Count(ls[n], "{") - Count(ls[n], "}")

\* the line of the opening brace of the declaration at line s (0: none)
OpenLine(ls, s) ==
    LET O == {n \in s..Len(ls) : Contains(ls[n], "{")}
    IN  IF O = {} THEN 0 ELSE SetMin(O)

\* the line of the brace that matches the opening brace of the declaration
\* at line s (0: the body never closes)
BodyEnd(ls, s) ==
    LET o == OpenLine(ls, s)
        E == {n \in o..Len(ls) : DepthAfter(ls, n) <= DepthAfter(ls, s - 1)}
    IN  IF o = 0 \/ E = {} THEN 0 ELSE SetMin(E)

\* line s is a confirmed declaration whose body closes at BodyEnd, with no
\* declaration nested inside
IsPlainMethod(ls, s) ==
    LET o == OpenLine(ls, s)
        e == BodyEnd(ls, s)
    IN  /\ Declaration(ls, s) # <<>>
        /\ e # 0
        /\ \A n \in s..(o - 1) : ~Contains(ls[n], "}")
        /\ DepthAfter(ls, e) = DepthAfter(ls, s - 1)
        /\ \A n \in (s + 1)..e : Declaration(ls, n) = <<>>

Returned(s) == loc_result # <<>> /\ loc_result[1].start_line = s

\* C2 (as claimed): a method declared at line s whose body closes at line e,
\* with no nested declaration and the opening brace on the declaration line
\* or on a following line, is returned for every target line in [s,e] and is
\* not returned for target line e+1.
C2_Containment ==
    loc_pc = "done" =>
        \A s \in 1..Len(lines) :
            IsPlainMethod(lines, s) =>
                /\ target_line \in s..BodyEnd(lines, s) => Returned(s)
                /\ target_line = BodyEnd(lines, s) + 1 => ~Returned(s)

\* C2 restricted to declarations whose opening brace is on the declaration
\* line: the part of the claim the code satisfies.
C2_SameLineBrace ==
    loc_pc = "done" =>
        \A s \in 1..Len(lines) :
            (IsPlainMethod(lines, s) /\ OpenLine(lines, s) = s) =>
                /\ target_line \in s..BodyEnd(lines, s) => Returned(s)
                /\ target_line = BodyEnd(lines, s) + 1 => ~Returned(s)

\* the frames pushed so far that enclose the target line: closed spans that
\* contain it and open frames that start at or before it
Enclosing ==
    {closed_spans[k] : k \in {j \in 1..Len(closed_spans) :
        /\ closed_spans[j].start_line <= target_line
        /\ target_line <= closed_spans[j].end_line[1]}}
    \cup {method_stack[k] : k \in {j \in 1..Len(method_stack) :
        method_stack[j].start_line <= target_line}}

\* C3 (as claimed): whenever a frame is returned and more than one pushed
\* frame encloses the target line, the returned frame is the most recently
\* opened of them, on each of the three return paths.
C3_Innermost ==
    (loc_pc = "done" /\ loc_result # <<>> /\ Cardinality(Enclosing) > 1) =>
        \A f \in Enclosing : f.start_line <= loc_result[1].start_line

\* C3 without the end-of-scan return: the two returns inside the loop
C3_InnermostInLoop ==
    (loc_pc = "done" /\ loc_result # <<>> /\ Cardinality(Enclosing) > 1 /\ i < Len(lines)) =>
        \A f \in Enclosing : f.start_line <= loc_result[1].start_line

\* the start lines of the frames pushed so far
PushedStarts ==
    {method_stack[k].start_line : k \in 1..Len(method_stack)}
    \cup {closed_spans[k].start_line : k \in 1..Len(closed_spans)}

\* C13 (as claimed): a frame is pushed for a candidate line only if an
\* opening brace is in its joined declaration text or on a following line,
\* no '=' stands before its first parenthesis and no ';' before any brace.
C13_Confirmation ==
    \A s \in PushedStarts :
        LET full_decl == JoinDecl(lines, lines[s], s).full_decl
        IN  /\ \E j \in s..Len(lines) : Contains(lines[j], "{")
            /\ ~Contains(BeforeFirst(full_decl, "("), "=")
            /\ ~Contains(BeforeFirst(full_decl, "{"), ";")

\* two closed spans are disjoint or one contains the other
Nested(a, b) ==
    \/ a.end_line[1] < b.start_line
    \/ b.end_line[1] < a.start_line
    \/ (a.start_line <= b.start_line /\ b.end_line[1] <= a.end_line[1])
    \/ (b.start_line <= a.start_line /\ a.end_line[1] <= b.end_line[1])

\* C14: at every scan position, after the pop loop of the line, start line
\* and recorded depth do not decrease from the bottom of the stack to its
\* top and no recorded depth is above the current brace depth; every popped
\* span ends at or after its start, and any two popped spans are disjoint or
\* one contains the other.
C14_StackNesting ==
    /\ loc_pc = "scan" =>
            /\ \A j, k \in 1..Len(method_stack) :
                    j < k =>
                        /\ method_stack[j].start_line <= method_stack[k].start_line
                        /\ method_stack[j].brace_depth_at_start
                                <= method_stack[k].brace_depth_at_start
            /\ \A k \in 1..Len(method_stack) :
                    method_stack[k].brace_depth_at_start <= brace_depth
    /\ \A k \in 1..Len(closed_spans) :
            closed_spans[k].end_line[1] >= closed_spans[k].start_line
    /\ \A j, k \in 1..Len(closed_spans) : Nested(closed_spans[j], closed_spans[k])

\* C14 witness: the scan goes on with two frames on the stack after another
\* frame was popped.
C14_Witness ==
    /\ loc_pc = "scan"
    /\ Len(method_stack) >= 2
    /\ Len(closed_spans) >= 1

(***************************************************************************)
(* Claims about find_method_by_signature                                   *)
(***************************************************************************)
\* the text of the declaration that starts at line n, through the line
\* that holds its closing parenthesis
RECURSIVE DeclText(_, _)
DeclText(ls, n) ==
    IF Contains(ls[n], ")") \/ n = Len(ls) THEN ls[n] ELSE ls[n] \o DeclText(ls, n + 1)

\* the comma-separated non-empty entries between the parentheses after name
\* in the declaration at line n, counted entry by entry
RECURSIVE CountEntries(_, _, _)
CountEntries(text, k, fresh) ==
    IF k > Len(text) \/ text[k] = ")" THEN 0
    ELSE IF text[k] = "," THEN CountEntries(text, k + 1, TRUE)
    ELSE (IF fresh THEN 1 ELSE 0) + CountEntries(text, k + 1, FALSE)

DeclEntries(ls, n, name) ==
    LET text == DeclText(ls, n)
        at == IndexFrom(text, name, 1)
    IN  CountEntries(text, IndexFrom(text, "(", at) + 1, TRUE)

\* the non-empty entries of the requested signature
SigEntries(sig) == CountEntries(sig, IndexFrom(sig, "(", 1) + 1, TRUE)

\* C4: a returned result names a line whose declaration has as many
\* non-empty parameter entries as the requested signature.
C4_ArityBound ==
    (sig_pc = "done" /\ sig_result # <<>>) =>
        /\ sig_result[1].start_line \in 1..Len(lines)
        /\ HasNameParen(lines[sig_result[1].start_line], method_name)
        /\ DeclEntries(lines, sig_result[1].start_line, method_name) = SigEntries(signature)

\* C4 witness: a match is returned after a declaration of the same name
\* with another parameter count was passed over.
C4_Witness ==
    /\ sig_pc = "done"
    /\ sig_result # <<>>
    /\ \E n \in 1..(sig_result[1].start_line - 1) :
            /\ HasNameParen(lines[n], method_name)
            /\ SigIsDecl(lines[n], method_name)
            /\ DeclEntries(lines, n, method_name) # SigEntries(signature)

(***************************************************************************)
(* Claims about the diff parser                                            *)
(***************************************************************************)
\* A unified diff read by its hunk counts: the reference reading of the
\* format.  After the two file header lines, each hunk header
\* @@ -s[,c] +s[,c] @@ is followed by body lines until c old and c new lines
\* are consumed; the first character of a body line tells its kind.
RefCount(s, p) ==
    IF OptCount(s, p) = p THEN 1 ELSE NumVal(s, p + 1, OptCount(s, p))

RefHeader(s) ==
    LET a == DigitsEnd(s, 5)
        b == OptCount(s, a)
        c == DigitsEnd(s, b + 2)
    IN  [old_start |-> NumVal(s, 5, a), old_count |-> RefCount(s, a),
         new_start |-> NumVal(s, b + 2, c), new_count |-> RefCount(s, c)]

RECURSIVE RefBody(_, _, _)
RefBody(text, k, r) ==
    IF k > Len(text) THEN [r EXCEPT !.ok = r.ok /\ r.old_left = 0 /\ r.new_left = 0]
    ELSE LET line == text[k]
         IN  IF StartsWith(line, <<"\\">>) THEN RefBody(text, k + 1, r)
             ELSE IF r.old_left = 0 /\ r.new_left = 0
             THEN IF HunkHeader(line) = <<>> THEN [r EXCEPT !.ok = FALSE]
                  ELSE LET h == RefHeader(line)
                       IN  RefBody(text, k + 1,
                               [r EXCEPT !.old_cur = h.old_start, !.old_left = h.old_count,
                                         !.new_cur = h.new_start, !.new_left = h.new_count])
             ELSE IF StartsWith(line, <<"-">>) /\ r.old_left > 0
             THEN RefBody(text, k + 1,
                      [r EXCEPT !.before = r.before \cup {r.old_cur},
                                !.old_cur = r.old_cur + 1, !.old_left = r.old_left - 1])
             ELSE IF StartsWith(line, <<"+">>) /\ r.new_left > 0
             THEN RefBody(text, k + 1,
                      [r EXCEPT !.after = r.after \cup {r.new_cur},
                                !.new_cur = r.new_cur + 1, !.new_left = r.new_left - 1])
             ELSE IF (line = <<>> \/ StartsWith(line, <<" ">>))
                     /\ r.old_left > 0 /\ r.new_left > 0
             THEN RefBody(text, k + 1,
                      [r EXCEPT !.old_cur = r.old_cur + 1, !.old_left = r.old_left - 1,
                                !.new_cur = r.new_cur + 1, !.new_left = r.new_left - 1])
             ELSE [r EXCEPT !.ok = FALSE]

RefParse(text) ==
    IF /\ Len(text) >= 3
       /\ StartsWith(text[1], <<"-", "-", "-", " ">>)
       /\ StartsWith(text[2], <<"+", "+", "+", " ">>)
       /\ HunkHeader(text[3]) # <<>>
    THEN RefBody(text, 3, [ok |-> TRUE, before |-> {}, after |-> {}, old_cur |-> 0,
                           new_cur |-> 0, old_left |-> 0, new_left |-> 0])
    ELSE [ok |-> FALSE, before |-> {}, after |-> {}]

WellFormedDiff(text) == RefParse(text).ok

\* C8 (as claimed): for a well-formed unified diff, whatever the content of
\* its removed and added lines, the before-set is the set of before-file line
\* numbers of the removed lines and the after-set that of the added lines.
C8_DiffCursor ==
    (pc = "parsed" /\ WellFormedDiff(diff_output)) =>
        /\ changed_lines_buggy = RefParse(diff_output).before
        /\ changed_lines_fixed = RefParse(diff_output).after

\* C8 for diffs none of whose removed lines starts with "--" and none of
\* whose added lines starts with "++": the part the code satisfies
C8_PlainContent ==
    (/\ pc = "parsed"
     /\ WellFormedDiff(diff_output)
     /\ \A k \in 3..Len(diff_output) :
            ~StartsWith(diff_output[k], <<"-", "-", "-">>)
            /\ ~StartsWith(diff_output[k], <<"+", "+", "+">>)) =>
        /\ changed_lines_buggy = RefParse(diff_output).before
        /\ changed_lines_fixed = RefParse(diff_output).after

\* C10 (as claimed): for any diff text, also one with malformed hunk
\* headers, every recorded line number is >= 1.
C10_PositiveLines ==
    \A n \in changed_lines_buggy \cup changed_lines_fixed : n >= 1

(***************************************************************************)
(* Claims about extract_modified_methods                                   *)
(***************************************************************************)
\* the two files of class c hold the same bytes
SameFiles(c) == OldText(ClassOps(c, edits)) = NewText(ClassOps(c, edits))

\* C1: at a class whose two files are identical the step taken goes on to
\* the next class: it adds no line to either changed-line set and emits no
\* record.
C1_Identity ==
    [][(AtClass /\ Cls # <<>> /\ FilesFound(Cls) /\ SameFiles(Cls)) =>
            /\ changed_lines_buggy' \subseteq changed_lines_buggy
            /\ changed_lines_fixed' \subseteq changed_lines_fixed
            /\ modified_methods' = modified_methods
            /\ cls_idx' = cls_idx + 1
            /\ pc' = "class"]_vars

\* C1 witness: a class with identical files was passed after a class that
\* left records, and the records are still the result.
C1_Witness ==
    /\ pc = "class"
    /\ cls_idx = 2
    /\ modified_classes[2] = ClassB
    /\ modified_methods # <<>>
    /\ \A k \in 1..Len(modified_methods) : modified_methods[k].class # ClassB

\* the changed lines of one side of class c that the locator attributes to
\* the method with signature sig
AttrFixed(c, sig) ==
    {n \in ParseDiff(RunDiff(ClassOps(c, edits))).fixed :
        LET m == FindMethodAtLine(FixedLines(c, edits), n)
        IN  m # <<>> /\ m[1].signature = sig}

AttrBuggy(c, sig) ==
    {n \in ParseDiff(RunDiff(ClassOps(c, edits))).buggy :
        LET m == FindMethodAtLine(BuggyLines(c, edits), n)
        IN  m # <<>> /\ m[1].signature = sig}

PureAddition(c, sig) == AttrFixed(c, sig) # {} /\ AttrBuggy(c, sig) = {}

PureDeletion(c, sig) == AttrBuggy(c, sig) # {} /\ AttrFixed(c, sig) = {}

\* the line find_method_by_signature gives for record r in a file, if any
MatchLine(ls, r) ==
    LET m == FindMethodBySignature(ls, r.method_name, r.method)
    IN  IF m = <<>> THEN <<>> ELSE <<m[1].start_line>>

\* C5 (as claimed): the emitted record of a pure addition has
\* line_start_fixed populated and line_start_buggy null, the one of a pure
\* deletion has line_start_buggy populated and line_start_fixed null.
C5_MergeCompleteness ==
    \A k \in 1..Len(modified_methods) :
        LET r == modified_methods[k]
        IN  /\ PureAddition(r.class, r.method) =>
                (r.line_start_fixed # <<>> /\ r.line_start_buggy = <<>>)
            /\ PureDeletion(r.class, r.method) =>
                (r.line_start_buggy # <<>> /\ r.line_start_fixed = <<>>)

\* C5 (amended): after the two location loops the record of a pure addition
\* has line_start_fixed populated and line_start_buggy null; in the emitted
\* record line_start_buggy is the line find_method_by_signature gives for the
\* method in the before file, null when it gives none.  Symmetrically for a
\* pure deletion.
C5_MergeThenBackfill ==
    /\ (pc = "fallback" /\ fb_idx = 0) =>
            \A k \in 1..Len(methods_found) :
                LET r == methods_found[k]
                IN  /\ PureAddition(Cls, r.method) =>
                        (r.line_start_fixed # <<>> /\ r.line_start_buggy = <<>>)
                    /\ PureDeletion(Cls, r.method) =>
                        (r.line_start_buggy # <<>> /\ r.line_start_fixed = <<>>)
    /\ \A k \in 1..Len(modified_methods) :
            LET r == modified_methods[k]
            IN  /\ PureAddition(r.class, r.method) =>
                    /\ r.line_start_fixed # <<>>
                    /\ r.line_start_buggy = MatchLine(BuggyLines(r.class, edits), r)
                /\ PureDeletion(r.class, r.method) =>
                    /\ r.line_start_buggy # <<>>
                    /\ r.line_start_fixed = MatchLine(FixedLines(r.class, edits), r)

\* C5 witness: two pure additions were emitted, one in a method the before
\* file declares on another line (backfilled) and one in a method it does not
\* declare (left null).
C5_Witness ==
    /\ pc = "done"
    /\ \E j, k \in 1..Len(modified_methods) :
            LET r == modified_methods[j]
                q == modified_methods[k]
            IN  /\ PureAddition(r.class, r.method)
                /\ r.line_start_buggy # <<>>
                /\ r.line_start_buggy # r.line_start_fixed
                /\ PureAddition(q.class, q.method)
                /\ q.line_start_buggy = <<>>

\* C6 (as claimed): the returned list never holds two records with the same
\* file and the same method signature.
C6_Uniqueness ==
    \A j, k \in 1..Len(modified_methods) :
        (modified_methods[j].file = modified_methods[k].file
         /\ modified_methods[j].method = modified_methods[k].method) => j = k

\* C7 (as claimed): the second of two runs on the same file pair returns the
\* list the first one returned, whatever the order the changed lines are
\* visited in.
C7_Deterministic ==
    (pc = "done" /\ prev # <<>>) => modified_methods = prev[1]

\* C9: every record created during the attribution of a class is in the
\* result once the class is done; every emitted record has a side populated;
\* a side is null exactly when it is unresolved, that is when no changed line
\* of that side is attributed to the method and find_method_by_signature
\* finds no declaration for it in that side's file.
C9_PartialEmission ==
    /\ pc \in {"class", "done"} =>
            \A c \in created :
                \E k \in 1..Len(modified_methods) :
                    /\ modified_methods[k].class = c.class
                    /\ modified_methods[k].method = c.method
    /\ \A k \in 1..Len(modified_methods) :
            LET r == modified_methods[k]
            IN  /\ r.line_start_buggy # <<>> \/ r.line_start_fixed # <<>>
                /\ r.line_start_buggy = <<>> <=>
                        /\ AttrBuggy(r.class, r.method) = {}
                        /\ MatchLine(BuggyLines(r.class, edits), r) = <<>>
                /\ r.line_start_fixed = <<>> <=>
                        /\ AttrFixed(r.class, r.method) = {}
                        /\ MatchLine(FixedLines(r.class, edits), r) = <<>>

\* C9 witness: the run is over and a record whose after side stayed
\* unresolved through the fallback is in the result.
C9_Witness ==
    /\ pc = "done"
    /\ \E k \in 1..Len(modified_methods) :
            /\ modified_methods[k].line_start_fixed = <<>>
            /\ modified_methods[k].line_start_buggy # <<>>
            /\ [class |-> modified_methods[k].class,
                method |-> modified_methods[k].method] \in created

\* the start lines of the spans the locator returns with signature sig for
\* the changed lines of one side of class c
FixedSpans(c, sig) ==
    {FindMethodAtLine(FixedLines(c, edits), n)[1].start_line : n \in AttrFixed(c, sig)}

BuggySpans(c, sig) ==
    {FindMethodAtLine(BuggyLines(c, edits), n)[1].start_line : n \in AttrBuggy(c, sig)}

\* C11 (as claimed): when the locator returned several spans with the
\* signature of an emitted record for the changed lines of a side, the
\* record's line of that side is the smallest start line among them, in
\* whatever order the changed lines were visited.
C11_SmallestLine ==
    \A k \in 1..Len(modified_methods) :
        LET r == modified_methods[k]
        IN  /\ Cardinality(FixedSpans(r.class, r.method)) > 1 =>
                r.line_start_fixed = <<SetMin(FixedSpans(r.class, r.method))>>
            /\ Cardinality(BuggySpans(r.class, r.method)) > 1 =>
                r.line_start_buggy = <<SetMin(BuggySpans(r.class, r.method))>>

\* how many sides of a record hold a line number
KnownSides(r) ==
    (IF r.line_start_buggy # <<>> THEN 1 ELSE 0) + (IF r.line_start_fixed # <<>> THEN 1 ELSE 0)

\* what a step taken during the attribution of one file pair does to the map
WriteOnceStep ==
    pc \in {"fixed", "buggy", "fallback"} =>
        /\ Len(methods_found') >= Len(methods_found)
        /\ \A k \in 1..Len(methods_found) :
                /\ methods_found'[k].method = methods_found[k].method
                /\ methods_found[k].line_start_buggy # <<>> =>
                        methods_found'[k].line_start_buggy = methods_found[k].line_start_buggy
                /\ methods_found[k].line_start_fixed # <<>> =>
                        methods_found'[k].line_start_fixed = methods_found[k].line_start_fixed
        /\ \A k \in (Len(methods_found) + 1)..Len(methods_found') :
                KnownSides(methods_found'[k]) = 1
        /\ (pc = "fallback" /\ fb_idx < Len(methods_found)) =>
                /\ methods_found[fb_idx + 1].line_start_buggy = <<>> =>
                        methods_found'[fb_idx + 1].line_start_buggy =
                            MatchLine(BuggyLines(Cls, edits), methods_found[fb_idx + 1])
                /\ methods_found[fb_idx + 1].line_start_fixed = <<>> =>
                        methods_found'[fb_idx + 1].line_start_fixed =
                            MatchLine(FixedLines(Cls, edits), methods_found[fb_idx + 1])

====
